---- MODULE Spec2Model ----
(***************************************************************************)
(* Length-sorted batching of tokenized prompts.                            *)
(*                                                                         *)
(*   model_inferencing/sorting.py      predict_sorted_batches + chunker    *)
(*                                     (fixed-count policy)                *)
(*   model_deployment/quantization.py  predict_sorted_batches              *)
(*                                     (token-budget policy, budget =      *)
(*                                     max_size) and                       *)
(*                                     batch_generate_using_ctrans         *)
(*   both files                        track_time, main                    *)
(*                                                                         *)
(* A tokenized prompt is represented by its input position and its length  *)
(* (the token ids themselves never influence the batching).  The tokenizer *)
(* and the model are external collaborators: the tokenizer's result is the *)
(* input tokenized_inputs, the model either returns or raises.             *)
(***************************************************************************)
EXTENDS Integers, Sequences, FiniteSets

\* Bounds of the model.
MaxN == 5
MaxLen == 2
MaxBatch == 2

VARIABLES
    variant,            \* which function main runs inside track_time
    tokenized_inputs,   \* tokenizer(prompts)["input_ids"], as lengths by position
    max_batch_size_arg, \* the max_batch_size the caller passed
    max_batch_size,     \* the local variable max_batch_size (ctrans reassigns it)
    range_step,         \* step of the range object of the ctrans loop
    tt,                 \* track_time: "idle", "inside", "exited"
    printed,            \* number of "Execution time" lines printed
    control,            \* "caller" or "callee": who is running
    pc,                 \* where the function stands / will resume
    pulls,              \* next() calls issued by the for loop of main
    sorted_batches,     \* the dict length -> sequences, in insertion order
    max_size,           \* quantization: max(sorted_batches.keys())
    gi,                 \* index of the current item of sorted_batches.items()
    pos,                \* current pos of the range being iterated
    ci,                 \* quantization: index into the current sorted_batch
    current_batch,      \* quantization: current_batch
    current_batch_size, \* quantization: current_batch_size
    calls,              \* batches handed to the inference collaborator, in order
    nyield,             \* number of batch results yielded to the caller
    all_results         \* ctrans: all_results, as the prompt position of each output

vars == <<variant, tokenized_inputs, max_batch_size_arg, max_batch_size, range_step,
          tt, printed, control, pc, pulls, sorted_batches, max_size, gi, pos, ci,
          current_batch, current_batch_size, calls, nyield, all_results>>

Generators == {"sorting", "quantization"}
Variants == Generators \cup {"ctrans"}
BatchSizes == (0 - 1) .. MaxBatch
Inputs == UNION {[1..n -> 0..MaxLen] : n \in 0..MaxN}

Min(a, b) == IF a <= b THEN a ELSE b
Front(s) == SubSeq(s, 1, Len(s) - 1)
Last(s) == s[Len(s)]

\* The tokenized prompts as values that remember their input position.
Items(lens) == [i \in 1..Len(lens) |-> [pos |-> i, len |-> lens[i]]]

\* Python s[a:b] for 0 <= a, 0 <= b.
PySlice(s, a, b) == SubSeq(s, a + 1, Min(b, Len(s)))

\* Python: is p produced by range(0, n, step) when the loop stands at p.
InRange(p, n, step) ==
    IF step > 0 THEN p < n ELSE IF step < 0 THEN p > n ELSE FALSE

\* sorted(tokenized_inputs, key=len): a stable sort.
RECURSIVE InsertByLen(_, _)
InsertByLen(tok, s) ==
    IF s = <<>> THEN <<tok>>
    ELSE IF Last(s).len <= tok.len THEN Append(s, tok)
    ELSE Append(InsertByLen(tok, Front(s)), Last(s))

RECURSIVE StableSort(_)
StableSort(s) ==
    IF s = <<>> THEN <<>> ELSE InsertByLen(Last(s), StableSort(Front(s)))

Unsorted(s) == s

SortedByLen(s) == StableSort(s)

KeepsEmpty(tok) == FALSE

\* "if not len(sorted_token): continue"
Skipped(tok) == tok.len = 0

\* One iteration of the grouping loop on the insertion-ordered dict.
GroupAppend(groups, tok) ==
    IF Skipped(tok) THEN groups
    ELSE IF \E i \in 1..Len(groups) : groups[i].length = tok.len
    THEN LET i == CHOOSE j \in 1..Len(groups) : groups[j].length = tok.len
         IN [groups EXCEPT ![i].items = Append(@, tok)]
    ELSE Append(groups, [length |-> tok.len, items |-> <<tok>>])

RECURSIVE GroupByLen(_)
GroupByLen(s) ==
    IF s = <<>> THEN <<>> ELSE GroupAppend(GroupByLen(Front(s)), Last(s))

MinSize(groups) ==
    CHOOSE m \in {groups[i].length : i \in 1..Len(groups)} :
        \A i \in 1..Len(groups) : m <= groups[i].length

\* max(sorted_batches.keys()), defined for a non-empty dict.
MaxSize(groups) ==
    CHOOSE m \in {groups[i].length : i \in 1..Len(groups)} :
        \A i \in 1..Len(groups) : groups[i].length <= m

chunkerWide(seq, size, p) == PySlice(seq, p, p + size + 1)

\* The chunk the generator expression of chunker produces at position p.
chunker(seq, size, p) == PySlice(seq, p, p + size)

BudgetCheckedLate(size, len, budget) == size > budget

\* "if current_batch_size + len(batch) > max_size"
BudgetExceeded(size, len, budget) == size + len > budget

RECURSIVE SumLen(_)
SumLen(b) == IF b = <<>> THEN 0 ELSE Last(b).len + SumLen(Front(b))

RECURSIVE Flatten(_)
Flatten(bs) == IF bs = <<>> THEN <<>> ELSE Flatten(Front(bs)) \o Last(bs)

\* max(len(input_tokens) for input_tokens in inputs), for a non-empty batch.
MaxTokens(batch) ==
    CHOOSE m \in {batch[i].len : i \in 1..Len(batch)} :
        \A i \in 1..Len(batch) : batch[i].len <= m

Init ==
    /\ variant \in Variants
    /\ tokenized_inputs \in Inputs
    /\ max_batch_size_arg \in IF variant = "quantization" THEN {0} ELSE BatchSizes
    /\ max_batch_size = max_batch_size_arg
    /\ range_step = 0
    /\ tt = "idle"
    /\ printed = 0
    /\ control = "caller"
    /\ pc = "start"
    /\ pulls = 0
    /\ sorted_batches = <<>>
    /\ max_size = 0
    /\ gi = 0
    /\ pos = 0
    /\ ci = 0
    /\ current_batch = <<>>
    /\ current_batch_size = 0
    /\ calls = <<>>
    /\ nyield = 0
    /\ all_results = <<>>

\* ---------------------------------------------------------------- track_time

\* "with track_time():" up to its yield; the generator object is created but
\* its body has not started.
TrackTimeEnter ==
    /\ tt = "idle"
    /\ tt' = "inside"
    /\ UNCHANGED <<variant, tokenized_inputs, max_batch_size_arg, max_batch_size,
                   range_step, printed, control, pc, pulls, sorted_batches, max_size,
                   gi, pos, ci, current_batch, current_batch_size, calls, nyield,
                   all_results>>

\* The code after track_time's yield runs only when the block ends normally;
\* an exception thrown into the context manager at its yield propagates.
TrackTimeExit ==
    /\ tt = "inside"
    /\ control = "caller"
    /\ pc \in {"done", "error"}
    /\ tt' = "exited"
    /\ printed' = IF pc = "error" THEN printed ELSE printed + 1
    /\ UNCHANGED <<variant, tokenized_inputs, max_batch_size_arg, max_batch_size,
                   range_step, control, pc, pulls, sorted_batches, max_size, gi, pos,
                   ci, current_batch, current_batch_size, calls, nyield, all_results>>

\* ---------------------------------------------------------------- consumer

\* One next() of "for batch_prediction in tqdm(generator)".
Pull ==
    /\ tt = "inside"
    /\ variant \in Generators
    /\ control = "caller"
    /\ pc \notin {"done", "error"}
    /\ pulls' = pulls + 1
    /\ control' = "callee"
    /\ UNCHANGED <<variant, tokenized_inputs, max_batch_size_arg, max_batch_size,
                   range_step, tt, printed, pc, sorted_batches, max_size, gi, pos, ci,
                   current_batch, current_batch_size, calls, nyield, all_results>>

\* ---------------------------------------------------------------- generators

YieldEager(batch, fails) ==
    /\ calls' = Append(calls, batch)
    /\ nyield' = IF fails THEN nyield ELSE nyield + 1
    /\ control' = IF fails THEN "caller" ELSE "callee"

\* "yield batch_generate(tensor_batch, tokenizer, model)": the batch goes to the
\* model; an error of the model propagates, otherwise the generator suspends.
Yield(batch, fails) ==
    /\ calls' = Append(calls, batch)
    /\ nyield' = IF fails THEN nyield ELSE nyield + 1
    /\ control' = "caller"

\* The statements before the loop over sorted_batches.items().
Bucket ==
    /\ variant \in Generators
    /\ control = "callee"
    /\ pc = "start"
    /\ LET groups == GroupByLen(SortedByLen(Items(tokenized_inputs)))
       IN /\ sorted_batches' = groups
          /\ IF variant = "quantization" /\ groups = <<>>
             THEN /\ pc' = "error"
                  /\ control' = "caller"
                  /\ UNCHANGED <<max_size, gi>>
             ELSE /\ pc' = "group"
                  /\ gi' = 1
                  /\ max_size' = IF variant = "quantization" THEN MaxSize(groups)
                                 ELSE max_size
                  /\ UNCHANGED control
    /\ UNCHANGED <<variant, tokenized_inputs, max_batch_size_arg, max_batch_size,
                   range_step, tt, printed, pulls, pos, ci, current_batch,
                   current_batch_size, calls, nyield, all_results>>

\* sorting.py: head of "for length, sorted_batch in sorted_batches.items()" and
\* the call of chunker, which evaluates range(0, len(seq), max_size) at once.
SortingGroup ==
    /\ variant = "sorting"
    /\ control = "callee"
    /\ pc = "group"
    /\ IF gi > Len(sorted_batches)
       THEN pc' = "done" /\ control' = "caller" /\ UNCHANGED pos
       ELSE IF max_batch_size = 0
       THEN pc' = "error" /\ control' = "caller" /\ UNCHANGED pos
       ELSE pc' = "chunk" /\ pos' = 0 /\ UNCHANGED control
    /\ UNCHANGED <<variant, tokenized_inputs, max_batch_size_arg, max_batch_size,
                   range_step, tt, printed, pulls, sorted_batches, max_size, gi, ci,
                   current_batch, current_batch_size, calls, nyield, all_results>>

\* sorting.py: one step of "for batch in chunker(sorted_batch, max_batch_size)".
SortingChunk ==
    /\ variant = "sorting"
    /\ control = "callee"
    /\ pc = "chunk"
    /\ LET seq == sorted_batches[gi].items
       IN IF InRange(pos, Len(seq), max_batch_size)
          THEN \E fails \in BOOLEAN :
                 /\ Yield(chunker(seq, max_batch_size, pos), fails)
                 /\ pc' = IF fails THEN "error" ELSE "chunk"
                 /\ pos' = pos + max_batch_size
                 /\ UNCHANGED gi
          ELSE /\ pc' = "group"
               /\ gi' = gi + 1
               /\ UNCHANGED <<pos, control, calls, nyield>>
    /\ UNCHANGED <<variant, tokenized_inputs, max_batch_size_arg, max_batch_size,
                   range_step, tt, printed, pulls, sorted_batches, max_size, ci,
                   current_batch, current_batch_size, all_results>>

\* quantization.py: head of the loop over sorted_batches.items().
QuantGroup ==
    /\ variant = "quantization"
    /\ control = "callee"
    /\ pc = "group"
    /\ IF gi > Len(sorted_batches)
       THEN /\ pc' = "done"
            /\ control' = "caller"
            /\ UNCHANGED <<ci, current_batch, current_batch_size>>
       ELSE /\ pc' = "item"
            /\ ci' = 1
            /\ current_batch' = <<>>
            /\ current_batch_size' = 0
            /\ UNCHANGED control
    /\ UNCHANGED <<variant, tokenized_inputs, max_batch_size_arg, max_batch_size,
                   range_step, tt, printed, pulls, sorted_batches, max_size, gi, pos,
                   calls, nyield, all_results>>

\* quantization.py: one step of "for batch in sorted_batch" up to the yield of
\* the flush-before-add, or through the append when nothing is flushed.
QuantItem ==
    /\ variant = "quantization"
    /\ control = "callee"
    /\ pc = "item"
    /\ ci <= Len(sorted_batches[gi].items)
    /\ LET batch == sorted_batches[gi].items[ci]
       IN IF BudgetExceeded(current_batch_size, batch.len, max_size)
          THEN \E fails \in BOOLEAN :
                 /\ Yield(current_batch, fails)
                 /\ pc' = IF fails THEN "error" ELSE "add"
                 /\ UNCHANGED <<ci, current_batch, current_batch_size>>
          ELSE /\ current_batch' = Append(current_batch, batch)
               /\ current_batch_size' = current_batch_size + batch.len
               /\ ci' = ci + 1
               /\ UNCHANGED <<pc, control, calls, nyield>>
    /\ UNCHANGED <<variant, tokenized_inputs, max_batch_size_arg, max_batch_size,
                   range_step, tt, printed, pulls, sorted_batches, max_size, gi, pos,
                   all_results>>

\* quantization.py: resuming after the flush-before-add: reset, then append.
QuantAdd ==
    /\ variant = "quantization"
    /\ control = "callee"
    /\ pc = "add"
    /\ LET batch == sorted_batches[gi].items[ci]
       IN /\ current_batch' = <<batch>>
          /\ current_batch_size' = batch.len
    /\ ci' = ci + 1
    /\ pc' = "item"
    /\ UNCHANGED <<variant, tokenized_inputs, max_batch_size_arg, max_batch_size,
                   range_step, tt, printed, control, pulls, sorted_batches, max_size,
                   gi, pos, calls, nyield, all_results>>

\* quantization.py: "if current_batch:" after the inner loop.
QuantFlush ==
    /\ variant = "quantization"
    /\ control = "callee"
    /\ pc = "item"
    /\ ci > Len(sorted_batches[gi].items)
    /\ IF current_batch # <<>>
       THEN \E fails \in BOOLEAN :
              /\ Yield(current_batch, fails)
              /\ pc' = IF fails THEN "error" ELSE "group"
              /\ gi' = IF fails THEN gi ELSE gi + 1
       ELSE /\ pc' = "group"
            /\ gi' = gi + 1
            /\ UNCHANGED <<control, calls, nyield>>
    /\ UNCHANGED <<variant, tokenized_inputs, max_batch_size_arg, max_batch_size,
                   range_step, tt, printed, pulls, sorted_batches, max_size, pos, ci,
                   current_batch, current_batch_size, all_results>>

\* ---------------------------------------------------------------- ctrans

\* batch_generate_using_ctrans up to the first test of its for loop:
\* range(0, len(prompts), max_batch_size) is built once, from the argument.
CtransCall ==
    /\ variant = "ctrans"
    /\ tt = "inside"
    /\ pc = "start"
    /\ all_results' = <<>>
    /\ IF max_batch_size = 0
       THEN pc' = "error" /\ UNCHANGED <<range_step, pos>>
       ELSE pc' = "loop" /\ range_step' = max_batch_size /\ pos' = 0
    /\ UNCHANGED <<variant, tokenized_inputs, max_batch_size_arg, max_batch_size, tt,
                   printed, control, pulls, sorted_batches, max_size, gi, ci,
                   current_batch, current_batch_size, calls, nyield>>

\* One iteration of the for loop of batch_generate_using_ctrans.
CtransIter ==
    /\ variant = "ctrans"
    /\ pc = "loop"
    /\ IF InRange(pos, Len(tokenized_inputs), range_step)
       THEN LET batch == PySlice(Items(tokenized_inputs), pos, pos + max_batch_size)
            IN IF batch = <<>>
               THEN /\ pc' = "error"
                    /\ UNCHANGED <<max_batch_size, pos, calls, all_results>>
               ELSE \E fails \in BOOLEAN :
                      /\ max_batch_size' = MaxTokens(batch)
                      /\ calls' = Append(calls, batch)
                      /\ pc' = IF fails THEN "error" ELSE "loop"
                      /\ all_results' = IF fails THEN all_results
                                        ELSE all_results \o
                                             [i \in 1..Len(batch) |-> batch[i].pos]
                      /\ pos' = IF fails THEN pos ELSE pos + range_step
       ELSE /\ pc' = "done"
            /\ UNCHANGED <<max_batch_size, pos, calls, all_results>>
    /\ UNCHANGED <<variant, tokenized_inputs, max_batch_size_arg, range_step, tt,
                   printed, control, pulls, sorted_batches, max_size, gi, ci,
                   current_batch, current_batch_size, nyield>>

Next ==
    \/ TrackTimeEnter
    \/ TrackTimeExit
    \/ Pull
    \/ Bucket
    \/ SortingGroup
    \/ SortingChunk
    \/ QuantGroup
    \/ QuantItem
    \/ QuantAdd
    \/ QuantFlush
    \/ CtransCall
    \/ CtransIter

Spec == Init /\ [][Next]_vars

\* ---------------------------------------------------------------- properties

\* Input positions whose tokenized sequence is non-empty.
Valid == {i \in 1..Len(tokenized_inputs) : tokenized_inputs[i] > 0}

\* Every place (batch, index in the batch) of the batches handed to inference.
Slots == UNION {{<<b, j>> : j \in 1..Len(calls[b])} : b \in 1..Len(calls)}

ItemAt(s) == calls[s[1]][s[2]]

Occurrences(p) == Cardinality({s \in Slots : ItemAt(s).pos = p})

BatchMinLen(b) ==
    CHOOSE m \in {b[i].len : i \in 1..Len(b)} : \A i \in 1..Len(b) : m <= b[i].len

\* The batches of the length group g, in the order they were produced.
BatchesOf(g) ==
    LET OfGroup(b) == b # <<>> /\ b[1].len = g.length
    IN SelectSeq(calls, OfGroup)

\* C1: once predict_sorted_batches (either variant; a positive max_batch_size
\* for sorting.py) is drained on an input with a non-empty sequence, every
\* non-empty tokenized sequence, counted by input position, is in exactly one
\* batch, and no batch ever holds a zero-length sequence.
C1_ExactlyOnce ==
    (/\ variant \in Generators
     /\ Valid # {}
     /\ variant = "sorting" => max_batch_size_arg > 0)
    => /\ \A s \in Slots : /\ ItemAt(s).len > 0
                           /\ ItemAt(s).len = tokenized_inputs[ItemAt(s).pos]
       /\ \A p \in Valid : Occurrences(p) <= 1
       /\ pc = "done" => \A p \in Valid : Occurrences(p) = 1

C1_Witness ==
    /\ variant = "quantization"
    /\ pc = "done"
    /\ Len(calls) >= 2
    /\ Valid # {}
    /\ Valid # 1..Len(tokenized_inputs)
    /\ \A p \in Valid : Occurrences(p) = 1

\* C2: every batch of the token-budget policy has a token count (sum of the
\* lengths of its sequences) of at most the budget max_size, or holds exactly
\* one sequence.
C2_TokenBudget ==
    variant = "quantization"
    => \A b \in 1..Len(calls) :
          SumLen(calls[b]) <= max_size \/ Len(calls[b]) = 1

C2_Witness ==
    /\ variant = "quantization"
    /\ pc = "done"
    /\ \E b \in 1..Len(calls) : Len(calls[b]) = 2 /\ SumLen(calls[b]) = max_size
    /\ \E b \in 1..Len(calls) : Len(calls[b]) = 1

\* C3: every batch of the fixed-count policy has at most max_batch_size items;
\* for a positive max_batch_size the batches of a length group are, in order,
\* contiguous chunks of the group that concatenate to the group, and all but
\* the last of them have exactly max_batch_size items.
C3_FixedCount ==
    variant = "sorting"
    => /\ \A b \in 1..Len(calls) : Len(calls[b]) <= max_batch_size_arg
       /\ (pc = "done" /\ max_batch_size_arg > 0)
          => \A g \in 1..Len(sorted_batches) :
                LET bs == BatchesOf(sorted_batches[g])
                IN /\ Flatten(bs) = sorted_batches[g].items
                   /\ \A k \in 1..(Len(bs) - 1) : Len(bs[k]) = max_batch_size_arg

\* Scenario C: five length-1 sequences, max_batch_size 2, batch sizes 2, 2, 1.
C3_Witness ==
    /\ variant = "sorting"
    /\ pc = "done"
    /\ tokenized_inputs = <<1, 1, 1, 1, 1>>
    /\ max_batch_size_arg = 2
    /\ [b \in 1..Len(calls) |-> Len(calls[b])] = <<2, 2, 1>>

\* C4: with max_batch_size <= 0 the fixed-count stream (here on an input
\* with a non-empty sequence) fails on the first pull, before any batch is
\* yielded and before any inference call; it never ends normally.
C4_FailsOnFirstPull ==
    (/\ variant = "sorting"
     /\ max_batch_size_arg <= 0
     /\ Valid # {}
     /\ pulls >= 1
     /\ control = "caller")
    => (pc = "error" /\ pulls = 1 /\ calls = <<>>)

\* C5: an input without a non-empty sequence is not an error: under both
\* policies the first pull signals ordinary exhaustion, no failure is raised
\* and inference is not invoked.
C5_EmptyInputExhausts ==
    (/\ variant \in Generators
     /\ Valid = {}
     /\ pulls >= 1
     /\ control = "caller")
    => (pc = "done" /\ pulls = 1 /\ calls = <<>>)

\* C6: in batch_generate_using_ctrans with a positive max_batch_size argument
\* the batches handed to generate_batch are consecutive, non-overlapping slices
\* of prompts in input order, each of at most max_batch_size prompts, and the
\* returned list has one output per prompt, the i-th for the i-th prompt.
C6_CtransSlices ==
    (variant = "ctrans" /\ max_batch_size_arg > 0)
    => /\ \A b \in 1..Len(calls) : Len(calls[b]) <= max_batch_size_arg
       /\ Flatten(calls) = SubSeq(Items(tokenized_inputs), 1, Len(Flatten(calls)))
       /\ pc = "done" => all_results = [i \in 1..Len(tokenized_inputs) |-> i]

\* C7: the stream is pull-based: batches formed and sent to inference never
\* outnumber the pulls issued, a pull that returned a batch leaves exactly as
\* many batches processed as pulls issued, and a batch is formed only while a
\* pull is being served.
C7_PullBased ==
    /\ [](variant \in Generators
          => /\ Len(calls) <= pulls
             /\ nyield <= pulls
             /\ (control = "caller" /\ pc \notin {"done", "error"})
                => (nyield = pulls /\ Len(calls) = pulls))
    /\ [][(variant \in Generators /\ calls' # calls)
          => (control = "callee" /\ pulls' = pulls /\ Len(calls') = Len(calls) + 1)]_vars

C7_Witness ==
    /\ variant \in Generators
    /\ control = "caller"
    /\ pc \notin {"done", "error"}
    /\ pulls = 2
    /\ nyield = 2
    /\ Cardinality(Valid) > 2

\* C8: batches come in non-decreasing order of their minimum sequence length,
\* and the length groups traversed are strictly ascending by length, whatever
\* the arrival order of the input.
C8_AscendingLengths ==
    variant \in Generators
    => /\ \A b \in 1..(Len(calls) - 1) :
             BatchMinLen(calls[b]) <= BatchMinLen(calls[b + 1])
       /\ \A i, j \in 1..Len(sorted_batches) :
             i < j => sorted_batches[i].length < sorted_batches[j].length

C8_Witness ==
    /\ variant \in Generators
    /\ pc = "done"
    /\ Len(tokenized_inputs) >= 3
    /\ tokenized_inputs[1] > tokenized_inputs[2]
    /\ tokenized_inputs[2] > 0
    /\ tokenized_inputs[3] = tokenized_inputs[1]
    /\ Len(calls) >= 2
    /\ BatchMinLen(calls[1]) < BatchMinLen(calls[Len(calls)])

\* C9: track_time prints the elapsed time exactly once on every exit of the
\* wrapped block, also when an error propagates out of it.
C9_ReportsOnce == tt = "exited" => printed = 1

\* C10: every batch of the token-budget packer is a non-empty list of
\* sequences of one length; when a group is left all of its sequences have
\* been flushed, nothing is carried into the next group.
C10_UniformNonEmpty ==
    variant = "quantization"
    => /\ \A b \in 1..Len(calls) :
             /\ calls[b] # <<>>
             /\ \A i, j \in 1..Len(calls[b]) : calls[b][i].len = calls[b][j].len
       /\ pc = "group"
          => Flatten(calls) =
             Flatten([g \in 1..(gi - 1) |-> sorted_batches[g].items])

C10_Witness ==
    /\ variant = "quantization"
    /\ pc = "group"
    /\ gi = 3
    /\ Len(calls) >= 3
    /\ Len(sorted_batches[2].items) >= 2
    /\ Len(sorted_batches[1].items) >= 2
====
